---------------------------- MODULE Spec2Model ----------------------------
(***************************************************************************)
(* A model of src/server.py, the Slack MCP server: the dispatcher          *)
(* call_tool and its seven handlers.  A tool call occupies a slot; it      *)
(* advances when the dispatcher is entered and each time one of its remote *)
(* calls returns or raises.  Python strings are TLA+ strings, so the text  *)
(* blocks of the model are the text blocks of the program, character for   *)
(* character (times, permalinks and error messages included).              *)
(***************************************************************************)
EXTENDS Integers, Sequences, FiniteSets, TLC

VARIABLES
    pc,            \* per slot: "idle", "await_<remote method>", "returned", "raised"
    name,          \* per slot: the tool name call_tool was entered with
    arguments,     \* per slot: the arguments call_tool was entered with
    frame,         \* per slot: the local variables of the running handler
    entered,       \* per slot: the handlers entered so far, in order
    requests,      \* per slot: the remote requests issued so far, in order
    responses,     \* per slot: the outcomes of those requests, in order
    outcome,       \* per slot: what call_tool returned or raised
    called_at,     \* per slot: the clock when call_tool was entered
    slack_client,  \* the process-wide WebClient
    environ,       \* the process environment (SLACK_WORKSPACE_URL)
    tz,            \* the host's local offset from UTC, in seconds
    now            \* the epoch clock, in whole seconds

vars == <<pc, name, arguments, frame, entered, requests, responses, outcome,
          called_at, slack_client, environ, tz, now>>

-----------------------------------------------------------------------------
(* Bounds of the model.                                                    *)

MaxInFlight == 2     \* tool calls the transport may have in flight at once
MaxMsgs == 3         \* messages in one remote history or thread response
MaxTicks == 1        \* hours the clock may advance

Slots == 1..MaxInFlight

-----------------------------------------------------------------------------
(* Python values.                                                          *)

PyNone == [pytype |-> "NoneType"]

Ok(v) == [ok |-> TRUE, val |-> v]
Raise(type, msg) == [ok |-> FALSE, exc |-> [type |-> type, msg |-> msg]]

\* d.get(k, "") where the code subscripts: an absent key is no failure
SubscriptLenient(d, k) ==
    IF d = PyNone THEN Raise("TypeError", "'NoneType' object is not subscriptable")
    ELSE Ok(IF k \in DOMAIN d THEN d[k] ELSE "")

\* d[k] on a dict or on None
Subscript(d, k) ==
    IF d = PyNone THEN Raise("TypeError", "'NoneType' object is not subscriptable")
    ELSE IF k \in DOMAIN d THEN Ok(d[k])
    ELSE Raise("KeyError", "'" \o k \o "'")

\* d.get(k, default) on a dict or on None
ArgGet(d, k, default) ==
    IF d = PyNone THEN Raise("AttributeError", "'NoneType' object has no attribute 'get'")
    ELSE IF k \in DOMAIN d THEN Ok(d[k])
    ELSE Ok(default)

\* d.get(k, default) on a record of a remote response
Get(d, k, default) == IF k \in DOMAIN d THEN d[k] ELSE default

Has(d, k) == k \in DOMAIN d

\* str() of a bool and of an int
StrBool(b) == IF b THEN "True" ELSE "False"
StrInt(n) == ToString(n)

\* min(a, b) on numbers
min(a, b) == IF b < a THEN b ELSE a

RECURSIVE Join(_)
\* "".join(parts)
Join(parts) == IF parts = <<>> THEN "" ELSE Head(parts) \o Join(Tail(parts))

RECURSIVE JoinWith(_, _)
\* sep.join(parts)
JoinWith(sep, parts) ==
    IF parts = <<>> THEN ""
    ELSE IF Len(parts) = 1 THEN parts[1]
    ELSE parts[1] \o sep \o JoinWith(sep, Tail(parts))

RECURSIVE StripDots(_)
\* s.replace(".", "")
StripDots(s) ==
    IF s = "" THEN ""
    ELSE LET ch == SubSeq(s, 1, 1)
             rest == StripDots(SubSeq(s, 2, Len(s)))
         IN IF ch = "." THEN rest ELSE ch \o rest

-----------------------------------------------------------------------------
(* float(), datetime.fromtimestamp() and strftime().                       *)

Digits == <<"0", "1", "2", "3", "4", "5", "6", "7", "8", "9">>
IsDigit(ch) == \E i \in 1..10 : Digits[i] = ch
DigitVal(ch) == (CHOOSE i \in 1..10 : Digits[i] = ch) - 1

AllDigits(s) == \A i \in 1..Len(s) : IsDigit(SubSeq(s, i, i))

RECURSIVE ParseNat(_)
ParseNat(s) ==
    IF s = "" THEN 0
    ELSE 10 * ParseNat(SubSeq(s, 1, Len(s) - 1)) + DigitVal(SubSeq(s, Len(s), Len(s)))

DotAt(s) == {i \in 1..Len(s) : SubSeq(s, i, i) = "."}

\* float(ts) of a "seconds.fraction" string: the whole seconds and the
\* microseconds of the value, or ValueError
PyFloat(s) ==
    LET dots == DotAt(s)
        bad == Raise("ValueError", "could not convert string to float: '" \o s \o "'")
    IN IF s = "" \/ Cardinality(dots) > 1 THEN bad
       ELSE IF dots = {} THEN
            IF AllDigits(s) THEN Ok([secs |-> ParseNat(s), micros |-> 0]) ELSE bad
       ELSE LET d == CHOOSE i \in dots : TRUE
                whole == SubSeq(s, 1, d - 1)
                frac == SubSeq(s, d + 1, Len(s))
                frac6 == SubSeq(frac \o "000000", 1, 6)
            IN IF AllDigits(whole) /\ AllDigits(frac) /\ Len(whole) + Len(frac) > 0
               THEN Ok([secs |-> ParseNat(whole), micros |-> ParseNat(frac6)])
               ELSE bad

Pad2(n) == IF n < 10 THEN "0" \o ToString(n) ELSE ToString(n)

\* the proleptic Gregorian date of a day number counted from 1970-01-01
CivilFromDays(days) ==
    LET z == days + 719468
        era == z \div 146097
        doe == z - era * 146097
        yoe == (doe - doe \div 1460 + doe \div 36524 - doe \div 146096) \div 365
        doy == doe - (365 * yoe + yoe \div 4 - yoe \div 100)
        mp == (5 * doy + 2) \div 153
        d == doy - (153 * mp + 2) \div 5 + 1
        m == IF mp < 10 THEN mp + 3 ELSE mp - 9
        y == yoe + era * 400 + (IF m <= 2 THEN 1 ELSE 0)
    IN [year |-> y, month |-> m, day |-> d]

\* a naive datetime is the wall-clock second count it shows
Date(wall) ==
    LET c == CivilFromDays(wall \div 86400)
    IN ToString(c.year) \o "-" \o Pad2(c.month) \o "-" \o Pad2(c.day)

Clock(wall) ==
    LET s == wall % 86400
    IN Pad2(s \div 3600) \o ":" \o Pad2((s % 3600) \div 60) \o ":" \o Pad2(s % 60)

\* datetime.fromtimestamp(t): the naive LOCAL wall clock of epoch second t
fromtimestamp(secs, offset) == secs + offset

\* datetime.utcnow(): the naive UTC wall clock of the current instant
utcnow(clock) == clock

\* naive.timestamp(): a naive datetime is read as LOCAL time
timestamp(wall, offset) == wall - offset

\* datetime.fromtimestamp(float(ts)).strftime("%Y-%m-%d %H:%M:%S UTC")
strftime_utc_label(secs, offset) ==
    LET wall == fromtimestamp(secs, offset)
    IN Date(wall) \o " " \o Clock(wall) \o " UTC"

-----------------------------------------------------------------------------
(* Control records: what a stretch of handler code ends with.              *)

TextContent(text) == [type |-> "text", text |-> text]

\* the handler issues a remote call and is suspended until it ends
Await(method, request, locals) ==
    [kind |-> "await", method |-> method, request |-> request, frame |-> locals]
\* the handler returns its text blocks
Return(blocks) == [kind |-> "return", blocks |-> blocks]
\* an exception is raised inside call_tool's try block
Throw(exc) == [kind |-> "throw", exc |-> exc]

\* what a remote call ends with
RemoteOk(data) == [kind |-> "ok", data |-> data]
RemoteApiError(response) == [kind |-> "SlackApiError", response |-> response]
RemoteFailure(type, msg) == [kind |-> "exception", exc |-> [type |-> type, msg |-> msg]]

\* the exception a failed remote call raises in the handler
RaisedBy(o) ==
    IF o.kind = "SlackApiError"
    THEN [type |-> "SlackApiError", msg |-> "The request to the Slack API failed.",
          response |-> o.response]
    ELSE o.exc

\* SlackResponse.__getitem__: response[key] is None when the key is absent
ResponseItem(data, key) == IF key \in DOMAIN data THEN data[key] ELSE PyNone

\* os.getenv("SLACK_WORKSPACE_URL", "https://your-workspace.slack.com")
workspace_url(env) == Get(env, "SLACK_WORKSPACE_URL", "https://your-workspace.slack.com")

-----------------------------------------------------------------------------
(* read_channel_messages                                                   *)

\* the subtypes the history loop skips
SkippedSubtypes == {"bot_message", "channel_join", "channel_leave"}

Skipped(msg) == Has(msg, "subtype") /\ msg.subtype \in SkippedSubtypes

\* the lower time bound sent to the remote, as whole epoch seconds
oldest_secs(lookback_hours, clock, offset) ==
    timestamp(utcnow(clock) - lookback_hours * 3600, offset)

\* str() of the float since_dt.timestamp()
oldest_ts(lookback_hours, clock, offset) ==
    StrInt(oldest_secs(lookback_hours, clock, offset)) \o ".0"

\* the caller's limit, sent as it came
HistoryLimitUncapped(limit) == limit

\* the limit sent with conversations.history
HistoryLimit(limit) == min(limit, 1000)

\* ", ".join(f":{r['name']}: ({r['count']})" for r in reactions)
FormatReactions(reactions) ==
    JoinWith(", ", [i \in 1..Len(reactions) |->
        ":" \o reactions[i].name \o ": (" \o StrInt(reactions[i].count) \o ")"])

ReactionsLine(msg) ==
    IF Has(msg, "reactions") /\ msg.reactions # <<>>
    THEN "**Reactions:** " \o FormatReactions(msg.reactions) \o "\n"
    ELSE ""

\* one pass of the history loop body, for a message that is not skipped
FormatChannelMessage(msg, channel_id, env, offset) ==
    LET user_id == Get(msg, "user", "unknown")
        ts == Get(msg, "ts", "")
        text == Get(msg, "text", "")
        t == PyFloat(ts)
    IN IF ~t.ok THEN t
       ELSE Ok("**Time:** " \o strftime_utc_label(t.val.secs, offset) \o "\n"
               \o "**User:** <@" \o user_id \o ">\n"
               \o "**Link:** " \o workspace_url(env) \o "/archives/" \o channel_id
                    \o "/p" \o StripDots(ts) \o "\n"
               \o (IF Get(msg, "thread_ts", "") # ""
                   THEN "**Thread:** Yes (replies: "
                            \o StrInt(Get(msg, "reply_count", 0)) \o ")\n"
                   ELSE "")
               \o "**Message:**\n" \o text \o "\n"
               \o ReactionsLine(msg)
               \o "\n---\n")

RECURSIVE ChannelLoop(_, _, _, _, _)
\* the history loop: the list `messages` it builds, or the exception that ends it
ChannelLoop(msgs, acc, channel_id, env, offset) ==
    IF msgs = <<>> THEN Ok(acc)
    ELSE IF Skipped(Head(msgs)) THEN ChannelLoop(Tail(msgs), acc, channel_id, env, offset)
    ELSE LET f == FormatChannelMessage(Head(msgs), channel_id, env, offset)
         IN IF ~f.ok THEN f
            ELSE ChannelLoop(Tail(msgs), Append(acc, f.val), channel_id, env, offset)

\* lines 239-244: up to the conversations.info call
read_channel_messages(channel_id, lookback_hours, limit, clock, offset) ==
    Await("conversations_info", [channel |-> channel_id],
          [channel_id |-> channel_id, lookback_hours |-> lookback_hours,
           limit |-> limit, oldest_ts |-> oldest_ts(lookback_hours, clock, offset)])

\* lines 244-252: conversations.info has returned; up to the conversations.history call
read_channel_messages_info(f, data) ==
    LET channel == ResponseItem(data, "channel")
        nm == Subscript(channel, "name")
    IN IF ~nm.ok THEN Throw(nm.exc)
       ELSE Await("conversations_history",
                  [channel |-> f.channel_id, oldest |-> f.oldest_ts,
                   limit |-> HistoryLimit(f.limit)],
                  [channel_id |-> f.channel_id, lookback_hours |-> f.lookback_hours,
                   limit |-> f.limit, oldest_ts |-> f.oldest_ts, channel_name |-> nm.val])

\* lines 248-294: conversations.history has returned
read_channel_messages_history(f, data, env, offset) ==
    LET messages == ChannelLoop(data.messages, <<>>, f.channel_id, env, offset)
    IN IF ~messages.ok THEN Throw(messages.exc)
       ELSE Return(<<TextContent(
                "# Messages from #" \o f.channel_name \o "\n"
                \o "Found " \o StrInt(Len(messages.val)) \o " messages from the last "
                \o StrInt(f.lookback_hours) \o " hours\n\n"
                \o Join(messages.val))>>)

-----------------------------------------------------------------------------
(* read_thread_messages                                                    *)

FormatThreadMessage(msg, idx, offset) ==
    LET user_id == Get(msg, "user", "unknown")
        ts == Get(msg, "ts", "")
        text == Get(msg, "text", "")
        t == PyFloat(ts)
        prefix == IF idx = 0 THEN "**[PARENT]**" ELSE "**[REPLY " \o StrInt(idx) \o "]**"
    IN IF ~t.ok THEN t
       ELSE Ok(prefix \o "\n"
               \o "**Time:** " \o strftime_utc_label(t.val.secs, offset) \o "\n"
               \o "**User:** <@" \o user_id \o ">\n"
               \o "**Message:**\n" \o text \o "\n"
               \o ReactionsLine(msg)
               \o "\n---\n")

RECURSIVE ThreadLoop(_, _, _, _)
ThreadLoop(msgs, idx, acc, offset) ==
    IF msgs = <<>> THEN Ok(acc)
    ELSE LET f == FormatThreadMessage(Head(msgs), idx, offset)
         IN IF ~f.ok THEN f
            ELSE ThreadLoop(Tail(msgs), idx + 1, Append(acc, f.val), offset)

\* lines 299-302: up to the conversations.replies call
read_thread_messages(channel_id, thread_ts) ==
    Await("conversations_replies", [channel |-> channel_id, ts |-> thread_ts],
          [channel_id |-> channel_id, thread_ts |-> thread_ts])

\* lines 299-333: conversations.replies has returned
read_thread_messages_replies(f, data, env, offset) ==
    LET messages == ThreadLoop(data.messages, 0, <<>>, offset)
    IN IF ~messages.ok THEN Throw(messages.exc)
       ELSE Return(<<TextContent(
                "# Thread Messages\n"
                \o "**Link:** " \o workspace_url(env) \o "/archives/" \o f.channel_id
                    \o "/p" \o StripDots(f.thread_ts) \o "\n"
                \o "**Total messages:** " \o StrInt(Len(messages.val)) \o "\n\n"
                \o Join(messages.val))>>)

-----------------------------------------------------------------------------
(* get_channel_info, get_user_info, list_my_channels, get_message_permalink *)

\* f"{d.get(k)}" of an optional string field: the string, or "None"
StrOpt(d, k) == IF Has(d, k) THEN d[k] ELSE "None"

\* channel.get("topic", {}).get("value") when it is truthy, else ""
NestedValue(channel, k) ==
    IF Has(channel, k) /\ Has(channel[k], "value") THEN channel[k].value ELSE ""

\* lines 338: up to the conversations.info call
get_channel_info(channel_id) ==
    Await("conversations_info", [channel |-> channel_id], [channel_id |-> channel_id])

\* lines 338-355: conversations.info has returned
get_channel_info_info(f, data, offset) ==
    LET channel == ResponseItem(data, "channel")
    IN IF channel = PyNone
       THEN Throw([type |-> "AttributeError",
                   msg |-> "'NoneType' object has no attribute 'get'"])
       ELSE Return(<<TextContent(
                "# Channel Information\n\n"
                \o "**Name:** #" \o StrOpt(channel, "name") \o "\n"
                \o "**ID:** " \o StrOpt(channel, "id") \o "\n"
                \o "**Created:** "
                    \o Date(fromtimestamp(Get(channel, "created", 0), offset)) \o "\n"
                \o "**Members:** "
                    \o (IF Has(channel, "num_members") THEN StrInt(channel.num_members)
                        ELSE "N/A") \o "\n"
                \o "**Is Private:** " \o StrBool(Get(channel, "is_private", FALSE)) \o "\n"
                \o "**Is Archived:** " \o StrBool(Get(channel, "is_archived", FALSE)) \o "\n"
                \o (IF NestedValue(channel, "topic") # ""
                    THEN "**Topic:** " \o channel.topic.value \o "\n" ELSE "")
                \o (IF NestedValue(channel, "purpose") # ""
                    THEN "**Purpose:** " \o channel.purpose.value \o "\n" ELSE ""))>>)

\* line 360: up to the users.info call
get_user_info(user_id) ==
    Await("users_info", [user |-> user_id], [user_id |-> user_id])

\* lines 360-375: users.info has returned
get_user_info_info(f, data) ==
    LET user == ResponseItem(data, "user")
    IN IF user = PyNone
       THEN Throw([type |-> "AttributeError",
                   msg |-> "'NoneType' object has no attribute 'get'"])
       ELSE LET profile == Get(user, "profile", <<>>)
            IN Return(<<TextContent(
                "# User Information\n\n"
                \o "**Name:** "
                    \o (IF Has(user, "real_name") THEN user.real_name
                        ELSE StrOpt(user, "name")) \o "\n"
                \o "**ID:** " \o StrOpt(user, "id") \o "\n"
                \o "**Display Name:** @" \o StrOpt(user, "name") \o "\n"
                \o "**Email:** " \o Get(profile, "email", "N/A") \o "\n"
                \o "**Title:** " \o Get(profile, "title", "N/A") \o "\n"
                \o "**Status:** " \o Get(profile, "status_text", "N/A") \o "\n"
                \o "**Timezone:** " \o Get(user, "tz_label", "N/A") \o "\n"
                \o "**Is Admin:** " \o StrBool(Get(user, "is_admin", FALSE)) \o "\n"
                \o "**Is Bot:** " \o StrBool(Get(user, "is_bot", FALSE)) \o "\n")>>)

\* lines 380-384: up to the conversations.list call
list_my_channels(types) ==
    Await("conversations_list",
          [types |-> types, exclude_archived |-> TRUE, limit |-> 1000],
          [types |-> types])

\* one line of the channel list; the two privacy glyphs of the source are
\* written here as the ASCII names :lock: and :globe:, and the grave accents
\* around the channel id as apostrophes (the lexer admits neither in a string)
FormatChannel(channel) ==
    "- " \o (IF Get(channel, "is_private", FALSE) THEN ":lock:" ELSE ":globe:")
    \o " **#" \o Get(channel, "name", "unknown") \o "** ('" \o StrOpt(channel, "id")
    \o "') - " \o StrInt(Get(channel, "num_members", 0)) \o " members"

\* lines 380-400: conversations.list has returned
list_my_channels_list(f, data) ==
    LET mine == SelectSeq(data.channels, LAMBDA ch : Get(ch, "is_member", FALSE))
        channels == [i \in 1..Len(mine) |-> FormatChannel(mine[i])]
    IN Return(<<TextContent(
            "# Your Channels\n"
            \o "Found " \o StrInt(Len(channels)) \o " channels you're a member of:\n\n"
            \o JoinWith("\n", channels))>>)

\* lines 447-450: up to the chat.getPermalink call
get_message_permalink(channel_id, message_ts) ==
    Await("chat_getPermalink", [channel |-> channel_id, message_ts |-> message_ts],
          [channel_id |-> channel_id, message_ts |-> message_ts])

\* lines 447-455: chat.getPermalink has returned
get_message_permalink_link(f, data) ==
    Return(<<TextContent("# Message Permalink\n\n**Link:** " \o StrOpt(data, "permalink"))>>)

-----------------------------------------------------------------------------
(* search_my_conversations                                                 *)

\* the count sent with search.messages
SearchCount(count) == min(count, 100)

FormatMatch(match, offset) ==
    LET channel_name == Get(Get(match, "channel", <<>>), "name", "unknown")
        user == Get(match, "user", "unknown")
        text == Get(match, "text", "")
        ts == Get(match, "ts", "")
        permalink == Get(match, "permalink", "")
        t == PyFloat(ts)
    IN IF ~t.ok THEN t
       ELSE Ok("**Channel:** #" \o channel_name \o "\n"
               \o "**User:** <@" \o user \o ">\n"
               \o "**Time:** " \o strftime_utc_label(t.val.secs, offset) \o "\n"
               \o "**Link:** " \o permalink \o "\n"
               \o "**Message:**\n" \o text \o "\n"
               \o "\n---\n")

RECURSIVE MatchLoop(_, _, _)
MatchLoop(matches, acc, offset) ==
    IF matches = <<>> THEN Ok(acc)
    ELSE LET f == FormatMatch(Head(matches), offset)
         IN IF ~f.ok THEN f
            ELSE MatchLoop(Tail(matches), Append(acc, f.val), offset)

\* line 406: up to the auth.test call
search_my_conversations(query, count) ==
    Await("auth_test", <<>>, [query |-> query, count |-> count])

\* lines 406-415: auth.test has returned; up to the search.messages call
search_my_conversations_auth(f, data) ==
    LET user_id == IF Has(data, "user_id") THEN data.user_id ELSE "None"
        search_query == f.query \o " <@" \o user_id \o ">"
    IN Await("search_messages",
             [query |-> search_query, count |-> SearchCount(f.count)],
             [query |-> f.query, count |-> f.count, user_id |-> user_id,
              search_query |-> search_query])

\* lines 412-442: search.messages has returned
search_my_conversations_search(f, data, offset) ==
    LET messages == MatchLoop(data.messages.matches, <<>>, offset)
        total == Subscript(data.messages, "total")
    IN IF ~messages.ok THEN Throw(messages.exc)
       ELSE IF ~total.ok THEN Throw(total.exc)
       ELSE Return(<<TextContent(
                "# Search Results\n"
                \o "Query: '" \o f.query \o "' (including mentions of you)\n"
                \o "Found " \o StrInt(total.val) \o " total matches, showing "
                \o StrInt(Len(messages.val)) \o " results:\n\n"
                \o Join(messages.val))>>)

-----------------------------------------------------------------------------
(* call_tool                                                               *)

ToolNames == {"read_channel_messages", "read_thread_messages", "get_channel_info",
              "get_user_info", "list_my_channels", "search_my_conversations",
              "get_message_permalink"}

\* the "required" list of each tool's inputSchema in list_tools
RequiredFields(nm) ==
    CASE nm = "read_channel_messages" -> {"channel_id"}
      [] nm = "read_thread_messages" -> {"channel_id", "thread_ts"}
      [] nm = "get_channel_info" -> {"channel_id"}
      [] nm = "get_user_info" -> {"user_id"}
      [] nm = "list_my_channels" -> {}
      [] nm = "search_my_conversations" -> {"query"}
      [] nm = "get_message_permalink" -> {"channel_id", "message_ts"}

\* the first of the evaluated argument expressions that raised, if any
FirstRaise(evals) ==
    LET bad == {i \in 1..Len(evals) : ~evals[i].ok}
    IN IF bad = {} THEN Ok(<<>>)
       ELSE evals[CHOOSE i \in bad : \A j \in bad : i <= j]

\* the argument expressions of the branch of `nm`, evaluated left to right
ArgumentEvals(nm, args) ==
    CASE nm = "read_channel_messages" ->
            <<Subscript(args, "channel_id"), ArgGet(args, "lookback_hours", 24),
              ArgGet(args, "limit", 100)>>
      [] nm = "read_thread_messages" ->
            <<Subscript(args, "channel_id"), Subscript(args, "thread_ts")>>
      [] nm = "get_channel_info" -> <<Subscript(args, "channel_id")>>
      [] nm = "get_user_info" -> <<Subscript(args, "user_id")>>
      [] nm = "list_my_channels" ->
            <<ArgGet(args, "types", "public_channel,private_channel")>>
      [] nm = "search_my_conversations" ->
            <<Subscript(args, "query"), ArgGet(args, "count", 20)>>
      [] nm = "get_message_permalink" ->
            <<Subscript(args, "channel_id"), Subscript(args, "message_ts")>>
      [] OTHER -> <<>>

\* an else branch that raises instead of answering
UnknownToolRaises(nm) == Throw([type |-> "ValueError", msg |-> "Unknown tool: " \o nm])

\* lines 219-220: the else branch
UnknownTool(nm) == Return(<<TextContent("Unknown tool: " \o nm)>>)

\* lines 182-220: the try block up to the first remote call of the handler
call_tool_try(nm, args, clock, offset) ==
    LET a == ArgumentEvals(nm, args)
        bad == FirstRaise(a)
    IN IF nm \notin ToolNames THEN UnknownTool(nm)
       ELSE IF ~bad.ok THEN Throw(bad.exc)
       ELSE CASE nm = "read_channel_messages" ->
                    read_channel_messages(a[1].val, a[2].val, a[3].val, clock, offset)
              [] nm = "read_thread_messages" -> read_thread_messages(a[1].val, a[2].val)
              [] nm = "get_channel_info" -> get_channel_info(a[1].val)
              [] nm = "get_user_info" -> get_user_info(a[1].val)
              [] nm = "list_my_channels" -> list_my_channels(a[1].val)
              [] nm = "search_my_conversations" ->
                    search_my_conversations(a[1].val, a[2].val)
              [] nm = "get_message_permalink" ->
                    get_message_permalink(a[1].val, a[2].val)

\* the message built from str(e) instead of the error code
SlackApiErrorTextFromMessage(exc) == Ok("Slack API error: " \o exc.msg)

\* lines 222-225: the message the SlackApiError clause builds from e.response['error']
SlackApiErrorText(exc) ==
    LET code == Subscript(exc.response, "error")
    IN IF code.ok THEN Ok("Slack API error: " \o code.val) ELSE code

\* lines 227-230: the message the Exception clause builds from str(e)
ErrorText(exc) == "Error: " \o exc.msg

\* lines 222-230: what call_tool ends with when its try block ended with `ctrl`:
\* an exception raised inside an except clause is handled by no other clause
call_tool_except(ctrl) ==
    IF ctrl.kind = "return" THEN [kind |-> "returned", blocks |-> ctrl.blocks]
    ELSE IF ctrl.exc.type = "SlackApiError"
    THEN LET m == SlackApiErrorText(ctrl.exc)
         IN IF m.ok THEN [kind |-> "returned", blocks |-> <<TextContent(m.val)>>]
            ELSE [kind |-> "raised", exc |-> m.exc]
    ELSE [kind |-> "returned", blocks |-> <<TextContent(ErrorText(ctrl.exc))>>]

-----------------------------------------------------------------------------
(* The inputs: tool calls of the transport and answers of the remote API.  *)

Names == ToolNames \cup {"delete_channel", ""}

ParentTs == "1699992800.000100"

\* argument values of a tool call: None, and mappings with and without the
\* required and the optional fields
Arguments ==
    {PyNone, <<>>}
    \cup {[channel_id |-> "C1"], [lookback_hours |-> 24]}
    \cup {[channel_id |-> "C1", lookback_hours |-> h] : h \in {0, 1}}
    \cup {[channel_id |-> "C1", limit |-> n] : n \in {7, 1000, 5000}}
    \cup {[channel_id |-> "C1", lookback_hours |-> 0, limit |-> 1001]}
    \cup {[channel_id |-> "C1", thread_ts |-> ParentTs], [thread_ts |-> ParentTs]}
    \cup {[channel_id |-> "C1", message_ts |-> ParentTs]}
    \cup {[user_id |-> "U1"], [types |-> "im"]}
    \cup {[query |-> "deploy"], [count |-> 5]}
    \cup {[query |-> "deploy", count |-> n] : n \in {5, 100, 500}}

MsgPlain == [type |-> "message", user |-> "U1", ts |-> ParentTs, text |-> "hello"]
MsgRich ==
    [type |-> "message", ts |-> "1699998200.000200", thread_ts |-> "1699998200.000200",
     reply_count |-> 2,
     reactions |-> <<[name |-> "tada", count |-> 2], [name |-> "eyes", count |-> 1]>>]
MsgBot == [type |-> "message", subtype |-> "bot_message", ts |-> "1699999940.000300",
           text |-> "build ok"]
MsgJoin == [type |-> "message", subtype |-> "channel_join", user |-> "U2",
            ts |-> "1699999000.000400", text |-> "joined"]
MsgLeave == [type |-> "message", subtype |-> "channel_leave", user |-> "U2",
             ts |-> "1699999500.000500", text |-> "left"]
MsgNoTs == [type |-> "message", user |-> "U3", text |-> "undated"]

MessagePool == {MsgPlain, MsgRich, MsgBot, MsgJoin, MsgLeave, MsgNoTs}

\* the sequences of at most n distinct elements of pool
Lists(pool, n) ==
    UNION {{s \in [1..k -> pool] : \A i, j \in 1..k : i # j => s[i] # s[j]} : k \in 0..n}

\* ts >= oldest, on "seconds.fraction" strings; a record without ts is the remote's to give
NotBefore(msg, oldest) ==
    LET t == PyFloat(Get(msg, "ts", ""))
        o == PyFloat(oldest)
    IN ~t.ok \/ t.val.secs > o.val.secs
       \/ (t.val.secs = o.val.secs /\ t.val.micros >= o.val.micros)

ChannelFull ==
    [id |-> "C1", name |-> "general", created |-> 1600000000, num_members |-> 3,
     is_private |-> FALSE, is_archived |-> FALSE, is_member |-> TRUE,
     topic |-> [value |-> "Releases"], purpose |-> [value |-> ""]]
ChannelPrivate == [id |-> "G2", name |-> "ops", is_private |-> TRUE, is_member |-> TRUE]
ChannelBare == [id |-> "C3"]

UserFull ==
    [id |-> "U1", name |-> "ada", real_name |-> "Ada L", tz_label |-> "Central European Time",
     is_admin |-> TRUE, is_bot |-> FALSE,
     profile |-> [email |-> "ada@example.com", title |-> "Engineer", status_text |-> "away"]]
UserNoEmail == [id |-> "U1", name |-> "ada", profile |-> [title |-> "Engineer"]]
UserBare == [id |-> "U1"]

MatchFull ==
    [channel |-> [id |-> "C1", name |-> "general"], user |-> "U1", text |-> "deploy done",
     ts |-> ParentTs, permalink |-> "https://acme.slack.com/archives/C1/p1699992800000100"]
MatchBare == [ts |-> "1699998200.000200"]
MatchNoTs == [text |-> "undated"]

\* the data of the successful answers to a request; `n` bounds the lists
Successes(method, request, n) ==
    CASE method = "conversations_info" ->
            {[ok |-> TRUE, channel |-> ChannelFull], [ok |-> TRUE, channel |-> ChannelBare],
             [ok |-> TRUE]}
      [] method = "conversations_history" ->
            {[ok |-> TRUE, messages |-> s] :
                s \in Lists({m \in MessagePool : NotBefore(m, request.oldest)}, n)}
      [] method = "conversations_replies" ->
            {[ok |-> TRUE, messages |-> s] : s \in Lists(MessagePool, n)}
      [] method = "users_info" ->
            {[ok |-> TRUE, user |-> u] : u \in {UserFull, UserNoEmail, UserBare}}
      [] method = "conversations_list" ->
            {[ok |-> TRUE, channels |-> s] :
                s \in Lists({ChannelFull, ChannelPrivate, ChannelBare}, n)}
      [] method = "auth_test" -> {[ok |-> TRUE, user_id |-> "U9"]}
      [] method = "search_messages" ->
            {[ok |-> TRUE, messages |-> [matches |-> s, total |-> Len(s) + 40]] :
                s \in Lists({MatchFull, MatchBare, MatchNoTs}, n)}
      [] method = "chat_getPermalink" ->
            {[ok |-> TRUE, permalink |-> "https://acme.slack.com/archives/C1/p1699992800000100"]}

ErrorCodes == {"channel_not_found", "ratelimited"}

\* the failures of a remote call: a SlackApiError whose response carries an
\* error code, a SlackApiError raised for a body that is not JSON (its
\* response is the raw status/headers/body mapping), and a transport failure
Failures ==
    {RemoteApiError([ok |-> FALSE, error |-> code]) : code \in ErrorCodes}
    \cup {RemoteApiError([status |-> 502, headers |-> <<>>, body |-> "<html>Bad Gateway</html>"])}
    \cup {RemoteFailure("URLError", "<urlopen error timed out>")}

RemoteOutcomes(method, request, n) ==
    {RemoteOk(d) : d \in Successes(method, request, n)} \cup Failures

-----------------------------------------------------------------------------
(* The state machine.                                                      *)

Idle == [kind |-> "none"]

StartTime == 17 * 100000000

Offsets == {-18000, 0, 7200}

Environments == {<<>>, [SLACK_WORKSPACE_URL |-> "https://acme.slack.com"]}

Init ==
    /\ pc = [c \in Slots |-> "idle"]
    /\ name = [c \in Slots |-> ""]
    /\ arguments = [c \in Slots |-> <<>>]
    /\ frame = [c \in Slots |-> <<>>]
    /\ entered = [c \in Slots |-> <<>>]
    /\ requests = [c \in Slots |-> <<>>]
    /\ responses = [c \in Slots |-> <<>>]
    /\ outcome = [c \in Slots |-> Idle]
    /\ called_at = [c \in Slots |-> 0]
    /\ slack_client = [token |-> "xoxp-token", ssl |-> "default-context"]
    /\ environ \in Environments
    /\ tz \in Offsets
    /\ now = StartTime

\* handler variables kept in one place for all calls: a call reads what the
\* call of slot 1 stored whenever that is a frame of the same handler stage
SharedFrame(c) == IF DOMAIN frame[1] = DOMAIN frame[c] THEN frame[1] ELSE frame[c]

\* the local variables the running handler of slot c reads
Frame(c) == frame[c]

\* the state of slot c after a stretch of call_tool that ended with `ctrl`
Proceed(c, ctrl) ==
    IF ctrl.kind = "await"
    THEN /\ pc' = [pc EXCEPT ![c] = ctrl.method]
         /\ frame' = [frame EXCEPT ![c] = ctrl.frame]
         /\ requests' = [requests EXCEPT
                ![c] = Append(@, [method |-> ctrl.method, params |-> ctrl.request])]
         /\ UNCHANGED outcome
    ELSE LET out == call_tool_except(ctrl)
         IN /\ pc' = [pc EXCEPT ![c] = out.kind]
            /\ outcome' = [outcome EXCEPT ![c] = out]
            /\ frame' = [frame EXCEPT ![c] = <<>>]
            /\ UNCHANGED requests

\* the pending remote call of slot c ends with `o`, and `ctrl` is how the
\* handler goes on when the call succeeded
Resume(c, o, ctrl) ==
    /\ responses' = [responses EXCEPT ![c] = Append(@, o)]
    /\ Proceed(c, IF o.kind = "ok" THEN ctrl ELSE Throw(RaisedBy(o)))
    /\ UNCHANGED <<name, arguments, entered, called_at, slack_client, environ, tz, now>>

Pending(c, nm, method) == pc[c] = method /\ name[c] = nm

\* the transport invokes call_tool(nm, args)
call_tool(c, nm, args) ==
    /\ pc[c] = "idle"
    /\ LET ctrl == call_tool_try(nm, args, now, tz)
       IN /\ name' = [name EXCEPT ![c] = nm]
          /\ arguments' = [arguments EXCEPT ![c] = args]
          /\ entered' = [entered EXCEPT ![c] = IF ctrl.kind = "await" THEN <<nm>> ELSE <<>>]
          /\ called_at' = [called_at EXCEPT ![c] = now]
          /\ Proceed(c, ctrl)
    /\ UNCHANGED <<responses, slack_client, environ, tz, now>>

ReadChannelInfo(c, o) ==
    /\ Pending(c, "read_channel_messages", "conversations_info")
    /\ Resume(c, o, read_channel_messages_info(Frame(c), o.data))

ReadChannelHistory(c, o) ==
    /\ Pending(c, "read_channel_messages", "conversations_history")
    /\ Resume(c, o, read_channel_messages_history(Frame(c), o.data, environ, tz))

ReadThreadReplies(c, o) ==
    /\ Pending(c, "read_thread_messages", "conversations_replies")
    /\ Resume(c, o, read_thread_messages_replies(Frame(c), o.data, environ, tz))

ChannelInfo(c, o) ==
    /\ Pending(c, "get_channel_info", "conversations_info")
    /\ Resume(c, o, get_channel_info_info(Frame(c), o.data, tz))

UserInfo(c, o) ==
    /\ Pending(c, "get_user_info", "users_info")
    /\ Resume(c, o, get_user_info_info(Frame(c), o.data))

ListChannels(c, o) ==
    /\ Pending(c, "list_my_channels", "conversations_list")
    /\ Resume(c, o, list_my_channels_list(Frame(c), o.data))

SearchAuth(c, o) ==
    /\ Pending(c, "search_my_conversations", "auth_test")
    /\ Resume(c, o, search_my_conversations_auth(Frame(c), o.data))

SearchMessages(c, o) ==
    /\ Pending(c, "search_my_conversations", "search_messages")
    /\ Resume(c, o, search_my_conversations_search(Frame(c), o.data, tz))

Permalink(c, o) ==
    /\ Pending(c, "get_message_permalink", "chat_getPermalink")
    /\ Resume(c, o, get_message_permalink_link(Frame(c), o.data))

Finished(c) == pc[c] \in {"returned", "raised"}

\* the transport takes the result (or the exception) and the slot is free again
Deliver(c) ==
    /\ Finished(c)
    /\ pc' = [pc EXCEPT ![c] = "idle"]
    /\ name' = [name EXCEPT ![c] = ""]
    /\ arguments' = [arguments EXCEPT ![c] = <<>>]
    /\ entered' = [entered EXCEPT ![c] = <<>>]
    /\ requests' = [requests EXCEPT ![c] = <<>>]
    /\ responses' = [responses EXCEPT ![c] = <<>>]
    /\ outcome' = [outcome EXCEPT ![c] = Idle]
    /\ called_at' = [called_at EXCEPT ![c] = 0]
    /\ UNCHANGED <<frame, slack_client, environ, tz, now>>

\* an hour passes
Tick ==
    /\ now < StartTime + MaxTicks * 3600
    /\ now' = now + 3600
    /\ UNCHANGED <<pc, name, arguments, frame, entered, requests, responses, outcome,
                   called_at, slack_client, environ, tz>>

\* the request of the remote call slot c is waiting on
PendingRequest(c) == requests[c][Len(requests[c])]

\* how the remote call slot c is waiting on may end
Answers(c) ==
    IF pc[c] \in {"idle", "returned", "raised"} THEN {}
    ELSE RemoteOutcomes(pc[c], PendingRequest(c).params, MaxMsgs)

\* one tool call at a time, over all the inputs
Next ==
    \/ \E nm \in Names, args \in Arguments : call_tool(1, nm, args)
    \/ \E o \in Answers(1) : ReadChannelInfo(1, o)
    \/ \E o \in Answers(1) : ReadChannelHistory(1, o)
    \/ \E o \in Answers(1) : ReadThreadReplies(1, o)
    \/ \E o \in Answers(1) : ChannelInfo(1, o)
    \/ \E o \in Answers(1) : UserInfo(1, o)
    \/ \E o \in Answers(1) : ListChannels(1, o)
    \/ \E o \in Answers(1) : SearchAuth(1, o)
    \/ \E o \in Answers(1) : SearchMessages(1, o)
    \/ \E o \in Answers(1) : Permalink(1, o)
    \/ Deliver(1)
    \/ Tick

Spec == Init /\ [][Next]_vars

-----------------------------------------------------------------------------
(* Tool calls in flight together: the transport may enter call_tool again  *)
(* while a handler is suspended in a remote call.                          *)

ConcNames == {"read_channel_messages", "read_thread_messages", "search_my_conversations",
              "delete_channel"}

ConcArguments ==
    {[channel_id |-> "C1", thread_ts |-> ParentTs, query |-> "deploy",
      lookback_hours |-> 0, limit |-> 7, count |-> 5],
     [channel_id |-> "C2", thread_ts |-> "1699998200.000200", query |-> "release",
      lookback_hours |-> 1, limit |-> 5000, count |-> 500]}

\* a few of the answers of RemoteOutcomes: one failure, and one success per
\* method (for conversations.history, what the bound `oldest` leaves of one store)
ConcAnswers(c) ==
    IF pc[c] \in {"idle", "returned", "raised"} THEN {}
    ELSE {RemoteApiError([ok |-> FALSE, error |-> "ratelimited"])} \cup
         {RemoteOk(d) : d \in
            CASE pc[c] = "conversations_info" -> {[ok |-> TRUE, channel |-> ChannelFull]}
              [] pc[c] = "conversations_history" ->
                    {[ok |-> TRUE, messages |->
                        SelectSeq(<<MsgPlain, MsgBot, MsgRich>>,
                                  LAMBDA m : NotBefore(m, PendingRequest(c).params.oldest))]}
              [] pc[c] = "conversations_replies" ->
                    {[ok |-> TRUE, messages |-> <<MsgPlain, MsgRich>>]}
              [] pc[c] = "auth_test" -> {[ok |-> TRUE, user_id |-> "U9"]}
              [] pc[c] = "search_messages" ->
                    {[ok |-> TRUE, messages |-> [matches |-> <<MatchFull>>, total |-> 41]]}}

ConcInit == Init /\ environ = <<>> /\ tz \in {0, 7200}

ConcNext ==
    \E c \in Slots :
        \/ \E nm \in ConcNames, args \in ConcArguments : call_tool(c, nm, args)
        \/ \E o \in ConcAnswers(c) : ReadChannelInfo(c, o)
        \/ \E o \in ConcAnswers(c) : ReadChannelHistory(c, o)
        \/ \E o \in ConcAnswers(c) : ReadThreadReplies(c, o)
        \/ \E o \in ConcAnswers(c) : SearchAuth(c, o)
        \/ \E o \in ConcAnswers(c) : SearchMessages(c, o)
        \/ Deliver(c)

ConcSpec == ConcInit /\ [][ConcNext]_vars

-----------------------------------------------------------------------------
(* Vocabulary of the properties.                                           *)

Active(c) == pc[c] # "idle"

StartsWith(text, prefix) ==
    Len(text) >= Len(prefix) /\ SubSeq(text, 1, Len(prefix)) = prefix

\* the places where `pat` occurs in `text`
Find(text, pat) ==
    {i \in 1..(Len(text) - Len(pat) + 1) : SubSeq(text, i, i + Len(pat) - 1) = pat}

Contains(text, pat) == Find(text, pat) # {}

FirstAt(text, pat) == CHOOSE i \in Find(text, pat) : \A j \in Find(text, pat) : i <= j

\* call_tool returned exactly one text block
OneBlock(c) ==
    /\ outcome[c].kind = "returned"
    /\ Len(outcome[c].blocks) = 1
    /\ outcome[c].blocks[1].type = "text"

Text(c) == outcome[c].blocks[1].text

AllOk(resps) == \A i \in 1..Len(resps) : resps[i].kind = "ok"

\* the remote calls a handler issues when none fails
CallsOf(nm) ==
    IF nm \in {"read_channel_messages", "search_my_conversations"} THEN 2 ELSE 1

\* the handler of slot c got a successful answer to every remote call it issues
Completed(c) ==
    /\ Finished(c)
    /\ name[c] \in ToolNames
    /\ Len(responses[c]) = CallsOf(name[c])
    /\ AllOk(responses[c])

ApiErrorWithCode(o) == o.kind = "SlackApiError" /\ Has(o.response, "error")

MissingRequired(nm, args) ==
    args # PyNone /\ \E k \in RequiredFields(nm) : k \notin DOMAIN args

ValidMinimal(nm, args) == args # PyNone /\ RequiredFields(nm) \subseteq DOMAIN args

-----------------------------------------------------------------------------
(* C1: call_tool always ends by returning a list of text blocks; no        *)
(* exception propagates out of it, whatever the name, the arguments and    *)
(* the outcome of the remote calls.                                        *)
C1_NoExceptionEscapes ==
    \A c \in Slots :
        Finished(c) =>
            /\ outcome[c].kind = "returned"
            /\ \A i \in 1..Len(outcome[c].blocks) : outcome[c].blocks[i].type = "text"

(* C2: when a remote call fails with an API error carrying code c, the     *)
(* result is the single block "Slack API error: c", the failed call is the *)
(* last request issued (no retry, no further call) and nothing rendered    *)
(* is returned.                                                            *)
C2_ApiErrorAborts ==
    \A c \in Slots : \A i \in 1..Len(responses[c]) :
        ApiErrorWithCode(responses[c][i]) =>
            /\ i = Len(responses[c])
            /\ Len(requests[c]) = i
            /\ Finished(c)
            /\ outcome[c] =
                [kind |-> "returned",
                 blocks |-> <<TextContent("Slack API error: "
                                            \o responses[c][i].response.error)>>]

\* the second remote call of read_channel_messages failed with an error code
C2_Witness ==
    \E c \in Slots :
        /\ name[c] = "read_channel_messages"
        /\ Len(responses[c]) = 2
        /\ ApiErrorWithCode(responses[c][2])
        /\ Finished(c)

(* C3: a known tool called with a mapping that lacks a required field      *)
(* returns one block beginning "Error: ", enters no handler and issues no   *)
(* remote call; list_my_channels on the empty mapping enters its handler.   *)
C3_MissingFieldIsErrorBlock ==
    \A c \in Slots :
        Active(c) /\ name[c] \in ToolNames =>
            /\ MissingRequired(name[c], arguments[c]) =>
                /\ Finished(c)
                /\ OneBlock(c)
                /\ StartsWith(Text(c), "Error: ")
                /\ entered[c] = <<>>
                /\ requests[c] = <<>>
            /\ name[c] = "list_my_channels" /\ arguments[c] = <<>> =>
                /\ entered[c] = <<"list_my_channels">>
                /\ Len(requests[c]) >= 1

\* get_message_permalink was called without message_ts
C3_Witness ==
    \E c \in Slots :
        /\ name[c] = "get_message_permalink"
        /\ arguments[c] = [channel_id |-> "C1"]
        /\ OneBlock(c)
        /\ Text(c) = "Error: 'message_ts'"

(* C4: an unknown name returns the single block "Unknown tool: <name>",     *)
(* enters no handler and issues no remote call, whatever the arguments; a   *)
(* known name with its required arguments and successful remote answers    *)
(* returns at least one text block and enters exactly one handler.          *)
C4_UnknownAndKnownNames ==
    \A c \in Slots :
        Active(c) =>
            /\ name[c] \notin ToolNames =>
                /\ Finished(c)
                /\ outcome[c] = [kind |-> "returned",
                                 blocks |-> <<TextContent("Unknown tool: " \o name[c])>>]
                /\ entered[c] = <<>>
                /\ requests[c] = <<>>
            /\ name[c] \in ToolNames /\ ValidMinimal(name[c], arguments[c]) =>
                /\ entered[c] = <<name[c]>>
                /\ Completed(c) =>
                    /\ outcome[c].kind = "returned"
                    /\ Len(outcome[c].blocks) >= 1
                    /\ \A i \in 1..Len(outcome[c].blocks) :
                            outcome[c].blocks[i].type = "text"

\* an unknown tool was called with None for arguments
C4_Witness ==
    \E c \in Slots :
        /\ name[c] = "delete_channel"
        /\ arguments[c] = PyNone
        /\ Finished(c)

(* C5: the limit sent with conversations.history is min(limit, 1000) and    *)
(* the count sent with search.messages is min(count, 100), with 100 and 20  *)
(* for an absent limit and count.                                           *)
C5_LimitsAreCapped ==
    \A c \in Slots : \A i \in 1..Len(requests[c]) :
        LET r == requests[c][i]
            limit == Get(arguments[c], "limit", 100)
            count == Get(arguments[c], "count", 20)
        IN /\ r.method = "conversations_history" =>
                /\ r.params.limit = (IF limit > 1000 THEN 1000 ELSE limit)
                /\ r.params.limit <= 1000
           /\ r.method = "search_messages" =>
                /\ r.params.count = (IF count > 100 THEN 100 ELSE count)
                /\ r.params.count <= 100

\* a history request was sent for a caller's limit of 5000
C5_Witness ==
    \E c \in Slots : \E i \in 1..Len(requests[c]) :
        /\ requests[c][i].method = "conversations_history"
        /\ Get(arguments[c], "limit", 100) = 5000
        /\ requests[c][i].params.limit = 1000

-----------------------------------------------------------------------------
\* the messages of a history response that the loop does not skip
Kept(msgs) == SelectSeq(msgs, LAMBDA m : ~Skipped(m))

\* the body lines every rendered message carries
Marker(msg) == "**Message:**\n" \o Get(msg, "text", "") \o "\n"

\* the text renders exactly the messages `kept`, each once and in this order
RendersInOrder(text, kept) ==
    /\ Cardinality(Find(text, "\n---\n")) = Len(kept)
    /\ \A i \in 1..Len(kept) : Cardinality(Find(text, Marker(kept[i]))) = 1
    /\ \A i, j \in 1..Len(kept) :
            i < j => FirstAt(text, Marker(kept[i])) < FirstAt(text, Marker(kept[j]))

HistoryHeader(channel_name, n) ==
    "# Messages from #" \o channel_name \o "\nFound " \o StrInt(n) \o " messages from the last "

(* C6: for every history response, read_channel_messages renders exactly   *)
(* the messages whose subtype is not bot_message, channel_join or          *)
(* channel_leave, each once and in the remote's order, the header counts   *)
(* them, and no message of those subtypes appears.                         *)
C6_HistoryFilter ==
    \A c \in Slots :
        Completed(c) /\ name[c] = "read_channel_messages" =>
            LET msgs == responses[c][2].data.messages
            IN /\ OneBlock(c)
               /\ StartsWith(Text(c),
                      HistoryHeader(responses[c][1].data.channel.name, Len(Kept(msgs))))
               /\ RendersInOrder(Text(c), Kept(msgs))
               /\ \A i \in 1..Len(msgs) :
                      Skipped(msgs[i]) => ~Contains(Text(c), Marker(msgs[i]))

\* C6 on the history responses in which every message that is not skipped
\* carries a ts: there the filter, the order and the count are as C6 says
C6_FilterOfDatedHistory ==
    \A c \in Slots :
        /\ Completed(c) /\ name[c] = "read_channel_messages"
        /\ \A i \in 1..Len(responses[c][2].data.messages) :
                LET m == responses[c][2].data.messages[i]
                IN Skipped(m) \/ Has(m, "ts")
        => LET msgs == responses[c][2].data.messages
           IN /\ OneBlock(c)
              /\ StartsWith(Text(c),
                     HistoryHeader(responses[c][1].data.channel.name, Len(Kept(msgs))))
              /\ RendersInOrder(Text(c), Kept(msgs))
              /\ \A i \in 1..Len(msgs) :
                     Skipped(msgs[i]) => ~Contains(Text(c), Marker(msgs[i]))

(* C7: when the remote calls succeed and a returned record lacks a field    *)
(* the handler reads as optional (ts among them), the handler returns its   *)
(* rendered document and call_tool returns no "Error:" block.               *)
C7_MissingOptionalFieldsRender ==
    \A c \in Slots :
        /\ Completed(c)
        /\ name[c] \in {"read_channel_messages", "read_thread_messages",
                        "search_my_conversations", "get_user_info"}
        => /\ OneBlock(c)
           /\ ~StartsWith(Text(c), "Error:")

(* C8: the bound `oldest` sent with conversations.history is the epoch time *)
(* of the call minus lookback_hours hours, whatever the host's offset from  *)
(* UTC; so with lookback_hours = 0, and a remote that returns only the      *)
(* messages dated at or after the bound, nothing is rendered and the header *)
(* says "Found 0 messages".                                                 *)
C8_OldestIsNowMinusLookback ==
    \A c \in Slots :
        LET lookback_hours == Get(arguments[c], "lookback_hours", 24)
        IN /\ \A i \in 1..Len(requests[c]) :
                requests[c][i].method = "conversations_history" =>
                    requests[c][i].params.oldest =
                        StrInt(called_at[c] - lookback_hours * 3600) \o ".0"
           /\ /\ Completed(c) /\ name[c] = "read_channel_messages"
              /\ lookback_hours = 0
              /\ \A i \in 1..Len(responses[c][2].data.messages) :
                    Has(responses[c][2].data.messages[i], "ts")
              => /\ OneBlock(c)
                 /\ StartsWith(Text(c), HistoryHeader("general", 0))

\* the UTC date-time of a "seconds.fraction" timestamp, cut to whole seconds
UtcLabel(ts) ==
    LET secs == PyFloat(ts).val.secs
    IN Date(secs) \o " " \o Clock(secs) \o " UTC"

\* the records a finished handler rendered a time for
Timed(c) ==
    LET all == CASE name[c] = "read_channel_messages" ->
                        Kept(responses[c][2].data.messages)
                 [] name[c] = "read_thread_messages" -> responses[c][1].data.messages
                 [] name[c] = "search_my_conversations" ->
                        responses[c][2].data.messages.matches
                 [] OTHER -> <<>>
    IN SelectSeq(all, LAMBDA m : Has(m, "ts"))

(* C9: the time rendered for a remote timestamp is its UTC date-time cut to *)
(* whole seconds and labelled "UTC", whatever the host's offset from UTC.   *)
C9_TimesAreUtc ==
    \A c \in Slots :
        Completed(c) /\ OneBlock(c) =>
            StartsWith(Text(c), "Error: ")
            \/ \A i \in 1..Len(Timed(c)) :
                    Contains(Text(c), "**Time:** " \o UtcLabel(Timed(c)[i].ts) \o "\n")

-----------------------------------------------------------------------------
\* how the handler of `nm`, suspended at `ctrl`, goes on when its call ends with o
AloneContinue(nm, ctrl, o, env, offset) ==
    IF o.kind # "ok" THEN Throw(RaisedBy(o))
    ELSE CASE nm = "read_channel_messages" /\ ctrl.method = "conversations_info" ->
                read_channel_messages_info(ctrl.frame, o.data)
           [] nm = "read_channel_messages" /\ ctrl.method = "conversations_history" ->
                read_channel_messages_history(ctrl.frame, o.data, env, offset)
           [] nm = "read_thread_messages" ->
                read_thread_messages_replies(ctrl.frame, o.data, env, offset)
           [] nm = "get_channel_info" -> get_channel_info_info(ctrl.frame, o.data, offset)
           [] nm = "get_user_info" -> get_user_info_info(ctrl.frame, o.data)
           [] nm = "list_my_channels" -> list_my_channels_list(ctrl.frame, o.data)
           [] nm = "search_my_conversations" /\ ctrl.method = "auth_test" ->
                search_my_conversations_auth(ctrl.frame, o.data)
           [] nm = "search_my_conversations" /\ ctrl.method = "search_messages" ->
                search_my_conversations_search(ctrl.frame, o.data, offset)
           [] nm = "get_message_permalink" -> get_message_permalink_link(ctrl.frame, o.data)

\* call_tool(nm, args) run alone, from entry to end, against the remote
\* answers `resps`: a function of the call's own inputs and of nothing else
RunAlone(nm, args, resps, env, offset) ==
    LET s0 == call_tool_try(nm, args, StartTime, offset)
        s1 == IF s0.kind = "await" /\ Len(resps) >= 1
              THEN AloneContinue(nm, s0, resps[1], env, offset) ELSE s0
        s2 == IF s1.kind = "await" /\ Len(resps) >= 2
              THEN AloneContinue(nm, s1, resps[2], env, offset) ELSE s1
    IN s2

\* everything the model holds for the call of slot c
SlotState(c) ==
    <<pc[c], name[c], arguments[c], frame[c], entered[c], requests[c], responses[c],
      outcome[c], called_at[c]>>

(* C10: under any interleaving of tool calls, a step of one call changes no *)
(* other call's state, no step changes the shared client, and a finished    *)
(* call's result is the result of running it alone with its own name, its   *)
(* own arguments and the answers to its own requests.                       *)
C10_CallsAreIndependent ==
    [][/\ slack_client' = slack_client
       /\ \A c, d \in Slots :
            c # d /\ SlotState(c)' # SlotState(c) => SlotState(d)' = SlotState(d)
       /\ \A c \in Slots :
            Finished(c)' =>
                LET alone == RunAlone(name'[c], arguments'[c], responses'[c], environ', tz')
                IN /\ alone.kind # "await"
                   /\ outcome'[c] = call_tool_except(alone)]_vars

\* a two-call handler ran to its end and returned its document while the
\* call of another slot, for other arguments, is suspended in its second remote call
C10_Witness ==
    \E c, d \in Slots :
        /\ c # d
        /\ pc[c] = "conversations_history"
        /\ name[d] = "search_my_conversations"
        /\ Completed(d)
        /\ OneBlock(d)
        /\ arguments[c] # arguments[d]

=============================================================================
